---- MODULE Spec2Model ----
(***************************************************************************)
(* A model of the rendering core of lizadaly/browser:                      *)
(*   htmlparser.py  lex (the markup tree builder), tree_to_list            *)
(*   css.py         CSSParser (the stylesheet parser), the selectors,      *)
(*                  compute_style and style (the cascade resolver)         *)
(*   browser.py     BlockLayout.text / flush / open_tag / close_tag        *)
(*                  (inline layout and line breaking), BlockLayout.layout  *)
(*                  and paint (the box tree and the display list),         *)
(*                  get_font (the font cache)                              *)
(* Each component has its own specification over its own variables; the    *)
(* variables of the other components stay at their initial values.         *)
(***************************************************************************)
EXTENDS Integers, Sequences, FiniteSets, TLC

VARIABLES
    \* browser.py, BlockLayout (inline mode)
    width, cursor_x, cursor_y, line, display_list, weight, style, size,
    tagstack, nev,
    \* htmlparser.py, lex / BrowserParser
    open, root, nodes, fed, lexpc, lexerr,
    \* css.py, CSSParser
    s, i, rules, selector, pairs, csspc, csserr,
    \* css.py, selectors matched against a node
    path, matched,
    \* css.py, style (the cascade resolver)
    dom, sheet, node_style, todo, run, snap, serr,
    \* browser.py, DocumentLayout / BlockLayout (the box tree) and paint
    btree, boxes, bstack, bpc, doc_height, paints,
    \* browser.py, get_font and FONTS
    FONTS, fkey, fdepth, fpc, fret

layoutVars == <<width, cursor_x, cursor_y, line, display_list, weight, style,
                size, tagstack, nev>>
lexVars    == <<open, root, nodes, fed, lexpc, lexerr>>
cssVars    == <<s, i, rules, selector, pairs, csspc, csserr>>
selVars    == <<path, matched>>
styleVars  == <<dom, sheet, node_style, todo, run, snap, serr>>
blockVars  == <<btree, boxes, bstack, bpc, doc_height, paints>>
fontVars   == <<FONTS, fkey, fdepth, fpc, fret>>
vars       == <<layoutVars, lexVars, cssVars, selVars, styleVars, blockVars,
               fontVars>>

\* The state of a component that is not running.
LayoutIdle ==
    /\ width = 0 /\ cursor_x = 0 /\ cursor_y = 0 /\ line = <<>>
    /\ display_list = <<>> /\ weight = "normal" /\ style = "roman"
    /\ size = 16 /\ tagstack = <<>> /\ nev = 0
LexIdle ==
    /\ open = <<>> /\ root = 0 /\ nodes = <<>> /\ fed = <<>>
    /\ lexpc = "idle" /\ lexerr = "none"
CssIdle ==
    /\ s = <<>> /\ i = 0 /\ rules = <<>> /\ selector = <<>> /\ pairs = <<>>
    /\ csspc = "idle" /\ csserr = "none"
SelIdle == path = <<>> /\ matched = "unknown"
StyleIdle ==
    /\ dom = <<>> /\ sheet = <<>> /\ node_style = <<>> /\ todo = <<>>
    /\ run = 0 /\ snap = <<>> /\ serr = "none"
BlockIdle ==
    /\ btree = <<>> /\ boxes = <<>> /\ bstack = <<>> /\ bpc = "idle"
    /\ doc_height = 0 /\ paints = <<>>
FontIdle ==
    /\ FONTS = <<>> /\ fkey = <<>> /\ fdepth = 0 /\ fpc = "idle"
    /\ fret = <<>>

\* Sequences over S of length lo..hi.
SeqsOf(S, lo, hi) == UNION {[1..k -> S] : k \in lo..hi}

Last(q) == q[Len(q)]
Front(q) == SubSeq(q, 1, Len(q) - 1)

RECURSIVE MaxOf(_)
MaxOf(S) ==
    LET x == CHOOSE v \in S : TRUE
    IN IF S = {x} THEN x
       ELSE LET m == MaxOf(S \ {x}) IN IF x > m THEN x ELSE m

(***************************************************************************)
(* browser.py: inline layout.  Lengths on the x axis are pixels; lengths   *)
(* on the y axis are quarter pixels, so that 1.25 * ascent is 5 * ascent.  *)
(* A word is known by its measured width.                                  *)
(***************************************************************************)
WIDTH == 800
HSTEP == 13
VSTEP == 18

\* Bounds of the inline-layout specification.
MaxEvents == 3
MaxWordsPerText == 2
\* The measured widths font.measure(word) can return for the words fed.
WordWidths == {300, 500, 900}
InlineTags == {"b", "i", "h1", "p", "br"}
notLayout == <<lexVars, cssVars, selVars, styleVars, blockVars, fontVars>>

\* DocumentLayout.layout: the geometry the root box hands to its child.
DocumentWidth == WIDTH - 2 * HSTEP
BoxX == HSTEP
BoxY == 4 * VSTEP

\* tkinter.font.Font(size, family, weight, slant): measure(" ") and metrics().
Font(sz, wt, st) == [size |-> sz, weight |-> wt, slant |-> st]
MeasureSpace(font) == font.size \div 4
Ascent(font) == font.size
Descent(font) == font.size \div 4

\* BlockLayout.flush on a state record b.
Flush(b) ==
    IF b.line = <<>> THEN b
    ELSE LET idx == 1..Len(b.line)
             max_ascent == MaxOf({Ascent(b.line[k].font) : k \in idx})
             baseline == b.cursor_y + 5 * max_ascent
             max_descent == MaxOf({Descent(b.line[k].font) : k \in idx})
             cmds == [k \in idx |->
                        [left |-> b.line[k].rel_x + BoxX,
                         top |-> BoxY + baseline - 4 * Ascent(b.line[k].font),
                         word |-> b.line[k].word,
                         font |-> b.line[k].font]]
         IN [b EXCEPT !.display_list = b.display_list \o cmds,
                      !.cursor_x = 0,
                      !.line = <<>>,
                      !.cursor_y = baseline + 5 * max_descent]

\* One iteration of the loop of BlockLayout.text: the word is appended at the
\* cursor, the cursor advances, and only then the overflow test runs.
TextWord(b, w, font) ==
    LET b1 == [b EXCEPT !.line = Append(b.line,
                              [rel_x |-> b.cursor_x, word |-> w, font |-> font]),
                        !.cursor_x = b.cursor_x + w + MeasureSpace(font)]
    IN IF b1.cursor_x + w > b1.width THEN Flush(b1) ELSE b1

RECURSIVE TextLoop(_, _, _)
TextLoop(b, ws, font) ==
    IF ws = <<>> THEN b
    ELSE TextLoop(TextWord(b, Head(ws), font), Tail(ws), font)

Box == [width |-> width, cursor_x |-> cursor_x, cursor_y |-> cursor_y,
        line |-> line, display_list |-> display_list]

SetBox(b) ==
    /\ width' = b.width
    /\ cursor_x' = b.cursor_x
    /\ cursor_y' = b.cursor_y
    /\ line' = b.line
    /\ display_list' = b.display_list

InitLayout ==
    /\ width = DocumentWidth
    /\ cursor_x = 0 /\ cursor_y = 0 /\ line = <<>> /\ display_list = <<>>
    /\ weight = "normal" /\ style = "roman" /\ size = 16
    /\ tagstack = <<>> /\ nev = 0
    /\ LexIdle /\ CssIdle /\ SelIdle /\ StyleIdle /\ BlockIdle /\ FontIdle

\* BlockLayout.text for a Text node whose words measure ws.
Text(ws) ==
    /\ nev < MaxEvents
    /\ nev' = nev + 1
    /\ SetBox(TextLoop(Box, ws, Font(size, weight, style)))
    /\ UNCHANGED <<weight, style, size, tagstack, notLayout>>

Sizes(tag) == CASE tag = "h1" -> 24 [] tag = "h2" -> 20 [] tag = "h3" -> 18
                [] OTHER -> 16

\* BlockLayout.recurse entering an Element: open_tag.
OpenTag(tag) ==
    /\ nev < MaxEvents
    /\ nev' = nev + 1
    /\ tagstack' = Append(tagstack, tag)
    /\ weight' = IF tag \in {"b", "strong", "h1", "h2", "h3", "h4"} THEN "bold"
                 ELSE weight
    /\ style' = IF tag \in {"i", "em"} THEN "italic" ELSE style
    /\ size' = IF tag \in {"h1", "h2", "h3", "h4"} THEN Sizes(tag) ELSE size
    /\ SetBox(IF tag \in {"div", "p", "nav"} THEN Flush(Box) ELSE Box)
    /\ UNCHANGED notLayout

\* BlockLayout.recurse leaving the innermost open Element: close_tag.
CloseTag ==
    /\ tagstack # <<>>
    /\ LET tag == Last(tagstack)
           b == IF tag \in {"br", "div", "p", "nav"} THEN Flush(Box) ELSE Box
       IN /\ tagstack' = Front(tagstack)
          /\ weight' = IF tag \in {"b", "strong", "h1", "h2", "h3", "h4"}
                       THEN "normal" ELSE weight
          /\ style' = IF tag \in {"i", "em"} THEN "roman" ELSE style
          /\ size' = IF tag \in {"h1", "h2", "h3", "h4"} THEN 16 ELSE size
          /\ SetBox(IF tag \in {"div", "p", "nav"}
                    THEN [b EXCEPT !.cursor_y = b.cursor_y + 4 * VSTEP] ELSE b)
    /\ UNCHANGED <<nev, notLayout>>

\* BlockLayout.layout, inline branch, after recurse: the final flush.
FinalFlush ==
    /\ tagstack = <<>>
    /\ line # <<>>
    /\ SetBox(Flush(Box))
    /\ UNCHANGED <<weight, style, size, tagstack, nev, notLayout>>

NextLayout ==
    \/ \E ws \in SeqsOf(WordWidths, 1, MaxWordsPerText) : Text(ws)
    \/ \E tag \in InlineTags : OpenTag(tag)
    \/ CloseTag
    \/ FinalFlush

SpecLayout == InitLayout /\ [][NextLayout]_vars

\* Every word placed so far, pending on the line or already emitted, with
\* its start offset within the line and its measured width.
Placed ==
    {[off |-> line[k].rel_x, w |-> line[k].word] : k \in 1..Len(line)}
    \cup {[off |-> display_list[k].left - BoxX, w |-> display_list[k].word] :
            k \in 1..Len(display_list)}

\* C1: no word is placed with start offset + measured width beyond the box's
\* width, except a word wider than the box by itself, placed at offset zero.
C1_NoWordOverflows ==
    \A p \in Placed : \/ p.off + p.w <= width
                      \/ (p.w > width /\ p.off = 0)

(***************************************************************************)
(* htmlparser.py: lex.  The tokenizer (html.parser.HTMLParser.feed) calls  *)
(* handle_starttag, handle_endtag and handle_data once per token, in       *)
(* document order; fed is the sequence of tokens handled so far.  A node   *)
(* is its index in nodes, in creation order; parent 0 is None.             *)
(***************************************************************************)
VOID_ELEMENT_TAGS ==
    {"area", "base", "br", "col", "embed", "hr", "img", "input", "keygen",
     "link", "meta", "param", "source", "track", "wbr"}

\* Bounds of the tree-builder specification.
MaxNodes == 4
MaxTokens == 6
LexTags == {"p", "b", "img"}
TextData == {"hello ", "world"}
notLex == <<layoutVars, cssVars, selVars, styleVars, blockVars, fontVars>>

\* Element(tag, attrs) and Text(text, parent) as constructed.
Element(tag) ==
    [kind |-> "element", tag |-> tag, text |-> "", parent |-> 0,
     children |-> <<>>]
TextNode(text, parent) ==
    [kind |-> "text", tag |-> "", text |-> text, parent |-> parent,
     children |-> <<>>]

\* A child put first in its parent's list instead of last.
PrependChild(ns, parent, id) ==
    [ns EXCEPT ![parent].children = <<id>> \o ns[parent].children]

\* parent.children.append(child), child being the node about to get index id.
AppendChild(ns, parent, id) ==
    [ns EXCEPT ![parent].children = Append(ns[parent].children, id)]

InitLex ==
    /\ open = <<>> /\ root = 0 /\ nodes = <<>> /\ fed = <<>>
    /\ lexpc = "feeding" /\ lexerr = "none"
    /\ LayoutIdle /\ CssIdle /\ SelIdle /\ StyleIdle /\ BlockIdle /\ FontIdle

\* A handle_starttag that pushes every element, void or not.
PushAlways(stack, tag, id) == Append(stack, id)

\* The push at the end of handle_starttag.
PushUnlessVoid(stack, tag, id) ==
    IF tag \notin VOID_ELEMENT_TAGS THEN Append(stack, id) ELSE stack

handle_starttag(tag) ==
    /\ lexpc = "feeding"
    /\ Len(fed) < MaxTokens
    /\ Len(nodes) < MaxNodes
    /\ LET id == Len(nodes) + 1
           el == IF open # <<>> THEN [Element(tag) EXCEPT !.parent = Last(open)]
                 ELSE Element(tag)
           ns == Append(nodes, el)
       IN /\ root' = IF root = 0 THEN id ELSE root
          /\ nodes' = IF open # <<>> THEN AppendChild(ns, Last(open), id) ELSE ns
          /\ open' = PushUnlessVoid(open, tag, id)
    /\ fed' = Append(fed, <<"start", tag>>)
    /\ UNCHANGED <<lexpc, lexerr, notLex>>

\* What handle_endtag does to the stack: "pop" it, leave it, or raise
\* IndexError (list.pop() on an empty list).
EndTagEffect(stack, tag) ==
    IF tag \in VOID_ELEMENT_TAGS THEN "keep"
    ELSE IF stack = <<>> THEN "IndexError" ELSE "pop"

handle_endtag(tag) ==
    /\ lexpc = "feeding"
    /\ Len(fed) < MaxTokens
    /\ fed' = Append(fed, <<"end", tag>>)
    /\ LET eff == EndTagEffect(open, tag)
       IN /\ open' = IF eff = "pop" THEN Front(open) ELSE open
          /\ lexerr' = IF eff = "IndexError" THEN "IndexError" ELSE lexerr
          /\ lexpc' = IF eff = "IndexError" THEN "raised" ELSE lexpc
    /\ UNCHANGED <<root, nodes, notLex>>

handle_data(data) ==
    /\ lexpc = "feeding"
    /\ Len(fed) < MaxTokens
    /\ fed' = Append(fed, <<"data", data>>)
    /\ IF root # 0 /\ open # <<>>
       THEN /\ Len(nodes) < MaxNodes
            /\ nodes' = AppendChild(Append(nodes, TextNode(data, Last(open))),
                                    Last(open), Len(nodes) + 1)
       ELSE UNCHANGED nodes
    /\ UNCHANGED <<open, root, lexpc, lexerr, notLex>>

\* lex after parser.feed(body) returned: the root, or the exception.
LexReturn ==
    /\ lexpc = "feeding"
    /\ IF root = 0
       THEN lexpc' = "raised" /\ lexerr' = "Did not get a root node"
       ELSE lexpc' = "returned" /\ UNCHANGED lexerr
    /\ UNCHANGED <<open, root, nodes, fed, notLex>>

NextLex ==
    \/ \E tag \in LexTags : handle_starttag(tag)
    \/ \E tag \in LexTags : handle_endtag(tag)
    \/ \E data \in TextData : handle_data(data)
    \/ LexReturn

SpecLex == InitLex /\ [][NextLex]_vars

RECURSIVE tree_to_list(_)
RECURSIVE ListChildren(_, _)
ListChildren(cs, k) ==
    IF k > Len(cs) THEN <<>>
    ELSE tree_to_list(cs[k]) \o ListChildren(cs, k + 1)
tree_to_list(n) == <<n>> \o ListChildren(nodes[n].children, 1)

Elements == {n \in 1..Len(nodes) : nodes[n].kind = "element"}
Range(q) == {q[k] : k \in 1..Len(q)}

\* C3: build fails if and only if no element is ever opened; whenever one is
\* opened, build completes without error and returns the first one opened.
C3_FailsIffNoElement ==
    lexpc \in {"returned", "raised"} =>
        IF Elements = {}
        THEN lexpc = "raised"
        ELSE /\ lexpc = "returned"
             /\ lexerr = "none"
             /\ \A n \in Elements : root <= n

IsVoidStart(tok) == tok[1] = "start" /\ tok[2] \in VOID_ELEMENT_TAGS

C7_Inv ==
    /\ \A k \in 1..Len(open) : nodes[open[k]].tag \notin VOID_ELEMENT_TAGS
    /\ \A n \in Elements :
          nodes[n].tag \in VOID_ELEMENT_TAGS => nodes[n].children = <<>>

C7_Step ==
    /\ \A tag \in LexTags :
          fed' = Append(fed, <<"end", tag>>) /\ lexpc' = "feeding" =>
             IF tag \in VOID_ELEMENT_TAGS THEN open' = open
             ELSE /\ open' = Front(open)
                  /\ (fed # <<>> /\ IsVoidStart(Last(fed))) =>
                        /\ nodes[Len(nodes)].parent = Last(open)
                        /\ Last(open) \notin Range(open')
    \* a node that is not on the stack gets no more children
    /\ \A n \in 1..Len(nodes) :
          n \notin Range(open) => nodes'[n].children = nodes[n].children

\* C7: void elements never enter the open-element stack and never get
\* children; a close tag naming a void tag leaves the stack unchanged; a
\* non-void close tag after a void element opened inside E pops E, and what
\* follows is attached neither to the void element nor to E.
C7_VoidNeverOnStack == []C7_Inv /\ [][C7_Step]_vars

\* '<p><img></p>' followed by text: the text was attached to nothing.
C7_Witness ==
    /\ fed = <<<<"start", "p">>, <<"start", "img">>, <<"end", "p">>,
               <<"data", "world">>>>
    /\ open = <<>>
    /\ Len(nodes) = 2

\* How many times node n occurs in the children list of node m.
Occurrences(m, n) ==
    Cardinality({k \in 1..Len(nodes[m].children) : nodes[m].children[k] = n})

Label(n) == IF nodes[n].kind = "element" THEN nodes[n].tag ELSE nodes[n].text

Scenario ==
    <<<<"start", "p">>, <<"data", "hello ">>, <<"start", "b">>,
      <<"data", "world">>, <<"end", "b">>, <<"end", "p">>>>

\* C8: the root has no parent; every other node reachable from the root is
\* in exactly one children list, once, and its parent is the owner of that
\* list; children are in document order, so the pre-order flattening lists
\* the nodes in the order they were created, and '<p>hello <b>world</b></p>'
\* flattens to p, 'hello ', b, 'world'.
C8_TreeConsistent ==
    root # 0 =>
        LET flat == tree_to_list(root)
        IN /\ nodes[root].parent = 0
           /\ nodes[root].kind = "element"
           /\ \A n \in Range(flat) \ {root} :
                 /\ nodes[n].parent \in 1..Len(nodes)
                 /\ Occurrences(nodes[n].parent, n) = 1
                 /\ \A m \in 1..Len(nodes) :
                       m # nodes[n].parent => Occurrences(m, n) = 0
           /\ \A k \in 1..(Len(flat) - 1) : flat[k] < flat[k + 1]
           /\ (fed = Scenario /\ lexpc = "returned") =>
                 [k \in 1..Len(flat) |-> Label(flat[k])]
                    = <<"p", "hello ", "b", "world">>

C8_Witness ==
    /\ fed = Scenario
    /\ lexpc = "returned"
    /\ Len(tree_to_list(root)) = 4

(***************************************************************************)
(* css.py: CSSParser.  The input s is a sequence of characters and i the   *)
(* parser's 0-based position, so the code's s[i] is s[i + 1] here.  A      *)
(* method that can raise AssertionError returns a record whose ok field    *)
(* tells whether it returned, and whose i field is the position it left.   *)
(***************************************************************************)
\* Bounds of the stylesheet-parser specification.
MaxLen == 6
CssChars == {"a", " ", "{", "}", ":", ";", "!"}
notCss == <<layoutVars, lexVars, selVars, styleVars, blockVars, fontVars>>

IsSpace(c) == c \in {" ", "\t", "\n", "\r"}
IsAlnum(c) == c \in {"a", "b", "d", "p", "w", "x", "A", "P", "0", "1", "5"}
IsWordChar(c) == IsAlnum(c) \/ c \in {"'", "\"", "#", "-", ".", "%"}

\* str.lower(), on the characters of this model.
LowerChar(c) == CASE c = "A" -> "a" [] c = "P" -> "p" [] OTHER -> c
Lower(w) == [k \in 1..Len(w) |-> LowerChar(w[k])]

RECURSIVE whitespace(_, _)
whitespace(str, j) ==
    IF j < Len(str) /\ IsSpace(str[j + 1]) THEN whitespace(str, j + 1) ELSE j

RECURSIVE WordEnd(_, _)
WordEnd(str, j) ==
    IF j < Len(str) /\ IsWordChar(str[j + 1]) THEN WordEnd(str, j + 1) ELSE j

word(str, j) ==
    LET e == WordEnd(str, j)
    IN [ok |-> e > j, i |-> e, val |-> SubSeq(str, j + 1, e)]

literal(str, j, c) ==
    LET ok == j < Len(str) /\ str[j + 1] = c
    IN [ok |-> ok, i |-> IF ok THEN j + 1 ELSE j]

pair(str, j) ==
    LET prop == word(str, j)
        colon == literal(str, whitespace(str, prop.i), ":")
        val == word(str, whitespace(str, colon.i))
    IN IF ~prop.ok THEN [ok |-> FALSE, i |-> prop.i, prop |-> <<>>, val |-> <<>>]
       ELSE IF ~colon.ok
       THEN [ok |-> FALSE, i |-> colon.i, prop |-> <<>>, val |-> <<>>]
       ELSE [ok |-> val.ok, i |-> val.i, prop |-> Lower(prop.val),
             val |-> val.val]

\* An ignore_until that leaves the position after the character it found.
RECURSIVE ignore_until_past(_, _, _)
ignore_until_past(str, j, chars) ==
    IF j < Len(str)
    THEN IF str[j + 1] \in chars THEN [i |-> j + 1, why |-> str[j + 1]]
         ELSE ignore_until_past(str, j + 1, chars)
    ELSE [i |-> j, why |-> "None"]

RECURSIVE ignore_until(_, _, _)
ignore_until(str, j, chars) ==
    IF j < Len(str)
    THEN IF str[j + 1] \in chars THEN [i |-> j, why |-> str[j + 1]]
         ELSE ignore_until(str, j + 1, chars)
    ELSE [i |-> j, why |-> "None"]

\* pairs[prop] = val on a dict kept as a sequence of <<key, value>> in
\* insertion order.
DictSet(d, key, val) ==
    IF \E k \in 1..Len(d) : d[k][1] = key
    THEN [k \in 1..Len(d) |-> IF d[k][1] = key THEN <<key, val>> ELSE d[k]]
    ELSE Append(d, <<key, val>>)

\* The selectors.  A selector is the sequence of its simple selectors:
\* DescendentSelector(ancestor, descendant) is ancestor \o <<descendant>>.
TagSelector(tag) == <<[kind |-> "tag", name |-> tag, priority |-> 1]>>
ClassSelector(klass) ==
    <<[kind |-> "class", name |-> Tail(klass), priority |-> 10]>>
DescendentSelector(ancestor, descendant) == ancestor \o descendant

\* The loop of CSSParser.selector, out being the selector built so far.
RECURSIVE SelectorLoop(_, _, _)
SelectorLoop(str, j, out) ==
    IF j < Len(str) /\ str[j + 1] # "{"
    THEN LET tag == word(str, j)
         IN IF ~tag.ok THEN [ok |-> FALSE, i |-> tag.i, sel |-> out]
            ELSE SelectorLoop(str, whitespace(str, tag.i),
                              DescendentSelector(out, TagSelector(Lower(tag.val))))
    ELSE [ok |-> TRUE, i |-> j, sel |-> out]

Selector(str, j) ==
    LET first == word(str, j)
        sel == Lower(first.val)
        out == IF sel[1] = "." THEN ClassSelector(sel) ELSE TagSelector(sel)
    IN IF ~first.ok THEN [ok |-> FALSE, i |-> first.i, sel |-> <<>>]
       ELSE SelectorLoop(str, whitespace(str, first.i), out)

InitCss ==
    /\ s \in SeqsOf(CssChars, 0, MaxLen)
    /\ i = 0 /\ rules = <<>> /\ selector = <<>> /\ pairs = <<>>
    /\ csspc = "parse" /\ csserr = "none"
    /\ LayoutIdle /\ LexIdle /\ SelIdle /\ StyleIdle /\ BlockIdle /\ FontIdle

\* The except clause of CSSParser.parse, entered with the parser at j.
ParseExcept(j) ==
    LET ig == ignore_until(s, j, {"}"})
        lit == literal(s, ig.i, "}")
    IN IF ig.why = "}"
       THEN IF lit.ok
            THEN /\ i' = whitespace(s, lit.i)
                 /\ csspc' = "parse"
                 /\ UNCHANGED csserr
            ELSE \* an assertion that fails in the handler leaves parse
                 /\ i' = lit.i
                 /\ csspc' = "raised"
                 /\ csserr' = "AssertionError"
       ELSE /\ i' = ig.i
            /\ csspc' = "done"
            /\ UNCHANGED csserr

\* CSSParser.parse, one iteration up to the call of body().
ParseRule ==
    /\ csspc = "parse"
    /\ i < Len(s)
    /\ LET sel == Selector(s, whitespace(s, i))
           brace == literal(s, sel.i, "{")
       IN IF sel.ok /\ brace.ok
          THEN /\ i' = whitespace(s, brace.i)
               /\ selector' = sel.sel
               /\ pairs' = <<>>
               /\ csspc' = "body"
               /\ UNCHANGED <<rules, csserr>>
          ELSE /\ ParseExcept(IF sel.ok THEN brace.i ELSE sel.i)
               /\ UNCHANGED <<rules, selector, pairs>>
    /\ UNCHANGED <<s, notCss>>

\* CSSParser.body, one iteration of its loop.
BodyPair ==
    /\ csspc = "body"
    /\ i < Len(s) /\ s[i + 1] # "}"
    /\ LET pr == pair(s, i)
           semi == literal(s, whitespace(s, pr.i), ";")
           failed == IF pr.ok THEN semi.i ELSE pr.i
           ig == ignore_until(s, failed, {";", "}"})
           lit == literal(s, ig.i, ";")
       IN /\ pairs' = IF pr.ok THEN DictSet(pairs, pr.prop, pr.val) ELSE pairs
          /\ IF pr.ok /\ semi.ok
             THEN /\ i' = whitespace(s, semi.i)
                  /\ UNCHANGED <<csspc, csserr, rules>>
             ELSE IF ig.why = ";"
             THEN IF lit.ok
                  THEN /\ i' = whitespace(s, lit.i)
                       /\ UNCHANGED <<csspc, csserr, rules>>
                  ELSE \* the assertion leaves body and reaches parse's handler
                       /\ ParseExcept(lit.i)
                       /\ UNCHANGED rules
             ELSE /\ i' = ig.i
                  /\ csspc' = "tail"
                  /\ UNCHANGED <<csserr, rules>>
    /\ UNCHANGED <<s, selector, notCss>>

\* CSSParser.body: its loop condition fails and it returns pairs.
BodyReturn ==
    /\ csspc = "body"
    /\ ~(i < Len(s) /\ s[i + 1] # "}")
    /\ csspc' = "tail"
    /\ UNCHANGED <<s, i, rules, selector, pairs, csserr, notCss>>

\* CSSParser.parse, the rest of the iteration after body() returned.
ParseRuleEnd ==
    /\ csspc = "tail"
    /\ LET brace == literal(s, i, "}")
       IN IF brace.ok
          THEN /\ rules' = Append(rules, <<selector, pairs>>)
               /\ i' = brace.i
               /\ csspc' = "parse"
               /\ UNCHANGED csserr
          ELSE /\ ParseExcept(brace.i)
               /\ UNCHANGED rules
    /\ UNCHANGED <<s, selector, pairs, notCss>>

\* CSSParser.parse: its loop condition fails and it returns rules.
ParseReturn ==
    /\ csspc = "parse"
    /\ ~(i < Len(s))
    /\ csspc' = "done"
    /\ UNCHANGED <<s, i, rules, selector, pairs, csserr, notCss>>

NextCss == ParseRule \/ BodyPair \/ BodyReturn \/ ParseRuleEnd \/ ParseReturn

SpecCss == InitCss /\ [][NextCss]_vars

\* What is left of the parse: it decreases with every step, so parse returns
\* after at most 4 * Len(s) + 3 steps.
PcRank == CASE csspc = "parse" -> 3 [] csspc = "body" -> 2
            [] csspc = "tail" -> 1 [] OTHER -> 0
Measure == 4 * (Len(s) - i) + PcRank

IsPrefix(p, q) == Len(p) <= Len(q) /\ SubSeq(q, 1, Len(p)) = p

\* The positions at or after j that hold one of chars, and the least of
\* them (Len(s) when there is none).
DelimsFrom(j, chars) == {k \in j..(Len(s) - 1) : s[k + 1] \in chars}
FirstDelim(j, chars) ==
    IF DelimsFrom(j, chars) = {} THEN Len(s)
    ELSE CHOOSE k \in DelimsFrom(j, chars) :
            \A m \in DelimsFrom(j, chars) : k <= m
\* The first position at or after j that holds no white space.
AfterSpaces(j) ==
    CHOOSE m \in j..Len(s) :
        /\ \A k \in j..(m - 1) : IsSpace(s[k + 1])
        /\ m = Len(s) \/ ~IsSpace(s[m + 1])

C5_Step ==
    \* no error leaves parse, and every step brings its end nearer
    /\ csserr' = "none" /\ csspc' # "raised"
    /\ Measure' < Measure /\ Measure' >= 0
    \* the rules collected so far stay, in stylesheet order
    /\ IsPrefix(rules, rules') /\ Len(rules') <= Len(rules) + 1
    \* a rule that is not parsed is skipped up to the next "}", where the
    \* parse resumes; without one the parse ends with the rules it has
    /\ (csspc \in {"parse", "tail"} /\ csspc' # "body" /\ rules' = rules) =>
          LET close == FirstDelim(i, {"}"})
          IN IF close < Len(s)
             THEN csspc' = "parse" /\ i' = AfterSpaces(close + 1)
             ELSE csspc' = "done"
    \* a declaration, well formed or not, ends at the next ";", where the
    \* body resumes; the body ends at a "}" before it, or at the end of input
    /\ (csspc = "body") =>
          LET delim == FirstDelim(i, {";", "}"})
          IN IF delim < Len(s) /\ s[delim + 1] = ";"
             THEN csspc' = "body" /\ i' = AfterSpaces(delim + 1)
             ELSE csspc' = "tail" /\ i' = delim

\* C5: parse never raises and always terminates; a malformed declaration is
\* skipped up to the next ";" and a malformed rule up to the next "}", where
\* parsing resumes; with no such delimiter left parsing stops and returns the
\* rules collected so far, in stylesheet order.
C5_ParseRecovers == [][C5_Step]_vars

\* A malformed rule was skipped up to its "}" and the rule after it parsed.
C5_Witness ==
    /\ s = <<":", "}", "a", "{", "}">>
    /\ csspc = "done"
    /\ csserr = "none"
    /\ Len(rules) = 1

(***************************************************************************)
(* css.py: a selector chain parsed by CSSParser.selector and matched       *)
(* against a node.  path lists the node's ancestors, outermost first, and  *)
(* then the node itself: path[k].parent is path[k - 1], and path[1] has    *)
(* no parent.  Tag and class names are sequences of characters.            *)
(***************************************************************************)
\* Bounds of the selector specification.
MaxChain == 3
MaxDepth == 3
SimpleWords == {<<"p">>, <<"d">>, <<"P">>, <<".", "w">>}
ElementNodes ==
    [kind : {"element"}, tag : {<<"p">>, <<"d">>}, class : {<<>>, <<"w">>}]
TextNodes == {[kind |-> "text", tag |-> <<>>, class |-> <<>>]}
notSel == <<layoutVars, lexVars, styleVars, blockVars, fontVars>>

\* The text of a selector chain: its simple selectors, one space between.
RECURSIVE JoinWords(_)
JoinWords(ws) ==
    IF Len(ws) = 1 THEN ws[1] ELSE ws[1] \o <<" ">> \o JoinWords(Tail(ws))

\* TagSelector.matches and ClassSelector.matches.
SimpleMatches(sel, node) ==
    IF sel.kind = "tag"
    THEN node.kind = "element" /\ sel.name = node.tag
    ELSE node.kind = "element" /\ node.class # <<>> /\ node.class = sel.name

\* Selector.matches on the node path[k]; for a DescendentSelector the
\* descendant is the last simple selector and the ancestor the rest.
RECURSIVE Matches(_, _, _)
Matches(sel, pth, k) ==
    IF Len(sel) = 1 THEN SimpleMatches(sel[1], pth[k])
    ELSE /\ SimpleMatches(Last(sel), pth[k])
         /\ \E a \in 1..(k - 1) : Matches(Front(sel), pth, a)

\* Selector.priority.
RECURSIVE Priority(_)
Priority(sel) ==
    IF Len(sel) = 1 THEN sel[1].priority
    ELSE Priority(Front(sel)) + Last(sel).priority

InitSel ==
    /\ \E chain \in SeqsOf(SimpleWords, 1, MaxChain) :
          s = JoinWords(chain) \o <<"{">>
    /\ \E anc \in SeqsOf(ElementNodes, 0, MaxDepth - 1) :
          \E node \in ElementNodes \cup TextNodes : path = Append(anc, node)
    /\ i = 0 /\ rules = <<>> /\ selector = <<>> /\ pairs = <<>>
    /\ csspc = "selector" /\ csserr = "none"
    /\ matched = "unknown"
    /\ LayoutIdle /\ LexIdle /\ StyleIdle /\ BlockIdle /\ FontIdle

\* CSSParser(s).selector().
ParseSelector ==
    /\ csspc = "selector"
    /\ LET sel == Selector(s, i)
       IN /\ i' = sel.i
          /\ selector' = sel.sel
          /\ csspc' = IF sel.ok THEN "parsed" ELSE "raised"
          /\ csserr' = IF sel.ok THEN csserr ELSE "AssertionError"
    /\ UNCHANGED <<s, rules, pairs, path, matched, notSel>>

\* selector.matches(node), node being the last of path.
MatchNode ==
    /\ csspc = "parsed"
    /\ matched' = IF Matches(selector, path, Len(path)) THEN "yes" ELSE "no"
    /\ csspc' = "matched"
    /\ UNCHANGED <<s, i, rules, selector, pairs, csserr, path, notSel>>

NextSel == ParseSelector \/ MatchNode

SpecSel == InitSel /\ [][NextSel]_vars

\* What the chain's simple selectors are by the grammar: a "."-prefixed
\* word is a class of weight 10, any other word a tag of weight 1.
SimpleOf(w) ==
    IF w[1] = "." THEN [kind |-> "class", name |-> Tail(Lower(w)), priority |-> 10]
    ELSE [kind |-> "tag", name |-> Lower(w), priority |-> 1]

RECURSIVE SumWeights(_)
SumWeights(chain) ==
    IF chain = <<>> THEN 0
    ELSE SimpleOf(Head(chain)).priority + SumWeights(Tail(chain))

\* The last simple selector matches path[k] and the earlier ones match, in
\* order, a chain of proper ancestors of path[k].
RECURSIVE ChainMatches(_, _, _)
ChainMatches(chain, pth, k) ==
    /\ SimpleMatches(SimpleOf(Last(chain)), pth[k])
    /\ Len(chain) > 1 => \E a \in 1..(k - 1) : ChainMatches(Front(chain), pth, a)

\* C10: the selector parsed from a chain of simple selectors, each a tag or
\* a class in any position, has the sum of their weights as specificity and
\* matches a node exactly when the chain does.
C10_ChainSelector ==
    csspc = "matched" =>
        \A chain \in SeqsOf(SimpleWords, 1, MaxChain) :
            s = JoinWords(chain) \o <<"{">> =>
                /\ Priority(selector) = SumWeights(chain)
                /\ (matched = "yes") <=> ChainMatches(chain, path, Len(path))

(***************************************************************************)
(* css.py: compute_style and style, the cascade resolver.  dom is the      *)
(* tree, a node being its index and parent 0 None; a node's children are   *)
(* the nodes naming it as parent, in index order.  sheet is the rule list  *)
(* handed to style, each rule <<selector, body>>, a body (and a parsed     *)
(* style attribute) being the dict as a sequence of <<property, value>>.   *)
(* A value is its text split in three: its unit (the suffix "px", "%" or   *)
(* "em", "" for a keyword), what precedes the unit (txt: "num" for a       *)
(* number, else the characters themselves) and, for a number, n: hundredths*)
(* for a px length, the percentage for a "%".                              *)
(***************************************************************************)
Px(n) == [txt |-> "num", n |-> n, unit |-> "px"]
Pct(n) == [txt |-> "num", n |-> n, unit |-> "%"]
Em(n) == [txt |-> "num", n |-> n, unit |-> "em"]
Kw(w) == [txt |-> w, n |-> 0, unit |-> ""]
\* "%", "x%" and "px": a unit after nothing, or after something not a number.
Bare(txt, unit) == [txt |-> txt, n |-> 0, unit |-> unit]

InheritedNames == {"font-size", "font-style", "font-weight", "color", "font-family"}
INHERITED_PROPERTIES(property) ==
    CASE property = "font-size" -> Px(1600)
      [] property = "font-style" -> Kw("normal")
      [] property = "font-weight" -> Kw("normal")
      [] property = "color" -> Kw("black")
      [] property = "font-family" -> Kw("Georgia")

\* Bounds of the cascade specifications.
MaxStyleNodes == 2
MaxRules == 1
MaxCascadeNodes == 2
MaxCascadeRules == 2
notStyle == <<layoutVars, lexVars, cssVars, selVars, blockVars, fontVars>>

\* d[key] = val on a map from property names to values.
Put(m, key, val) ==
    [x \in (DOMAIN m) \cup {key} |-> IF x = key THEN val ELSE m[x]]

\* The ancestors of node n, outermost first, then n.
RECURSIVE PathOf(_)
PathOf(n) ==
    IF dom[n].parent = 0 THEN <<dom[n]>>
    ELSE Append(PathOf(dom[n].parent), dom[n])

\* The base of a percentage: the node's own font-size as an earlier pass
\* left it, when there is one.
ParentFontSizeStale(st, n) ==
    IF "font-size" \in DOMAIN st[n] THEN st[n]["font-size"]
    ELSE IF dom[n].parent # 0 THEN st[dom[n].parent]["font-size"]
    ELSE INHERITED_PROPERTIES("font-size")

\* compute_style: the font-size a percentage is taken of.
ParentFontSize(st, n) ==
    IF dom[n].parent # 0 THEN st[dom[n].parent]["font-size"]
    ELSE INHERITED_PROPERTIES("font-size")

\* compute_style(node, property, value): a value, None, or the ValueError
\* float() raises on text that is not a number.
compute_style(st, n, property, value) ==
    IF property = "font-size"
    THEN IF value.unit = "px" THEN [kind |-> "value", val |-> value]
         ELSE IF value.unit = "%"
         THEN LET parent_font_size == ParentFontSize(st, n)
              IN IF value.txt # "num" \/ parent_font_size.txt # "num"
                 THEN [kind |-> "ValueError", val |-> value]
                 ELSE [kind |-> "value",
                       val |-> Px((value.n * parent_font_size.n) \div 100)]
         ELSE [kind |-> "None", val |-> value]
    ELSE [kind |-> "value", val |-> value]

\* The loop over a body's declarations, from the k-th on: m is node n's
\* style so far; a ValueError ends it with what was assigned before.
RECURSIVE ApplyBody(_, _, _, _, _)
ApplyBody(st, n, m, body, k) ==
    IF k > Len(body) THEN [m |-> m, err |-> "none"]
    ELSE LET computed_value == compute_style(st, n, body[k][1], body[k][2])
         IN IF computed_value.kind = "ValueError"
            THEN [m |-> m, err |-> "ValueError"]
            ELSE IF computed_value.kind = "None"
            THEN ApplyBody(st, n, m, body, k + 1)
            ELSE ApplyBody(st, n, Put(m, body[k][1], computed_value.val),
                           body, k + 1)

\* style, first loop: the inherited properties, over what the node holds.
Inherit(st, n) ==
    [x \in (DOMAIN st[n]) \cup InheritedNames |->
        IF x \in InheritedNames
        THEN IF dom[n].parent # 0 THEN st[dom[n].parent][x]
             ELSE INHERITED_PROPERTIES(x)
        ELSE st[n][x]]

\* style, second loop: the rules in the order of the list, from the k-th on.
RECURSIVE ApplyRules(_, _, _, _, _)
ApplyRules(st, n, m, rs, k) ==
    IF k > Len(rs) THEN [m |-> m, err |-> "none"]
    ELSE IF ~Matches(rs[k][1], PathOf(n), Len(PathOf(n)))
    THEN ApplyRules(st, n, m, rs, k + 1)
    ELSE LET r == ApplyBody(st, n, m, rs[k][2], 1)
         IN IF r.err # "none" THEN r ELSE ApplyRules(st, n, r.m, rs, k + 1)

\* style, the node's own style attribute.
ApplyInline(st, n, m) ==
    IF dom[n].style # <<>> THEN ApplyBody(st, n, m, dom[n].style, 1)
    ELSE [m |-> m, err |-> "none"]

\* style(node, rules) up to its recursion into the children.
StyleOne(st, n) ==
    LET r == ApplyRules(st, n, Inherit(st, n), sheet, 1)
    IN IF r.err # "none" THEN r ELSE ApplyInline(st, n, r.m)

\* The Element children of node n, in order.
RECURSIVE ElementChildrenFrom(_, _)
ElementChildrenFrom(n, k) ==
    IF k > Len(dom) THEN <<>>
    ELSE IF dom[k].parent = n /\ dom[k].kind = "element"
    THEN <<k>> \o ElementChildrenFrom(n, k + 1)
    ELSE ElementChildrenFrom(n, k + 1)

\* The trees of at most max nodes: the root is an Element, every parent is
\* an Element created before its child.
Trees(max, Roots, Others) ==
    {d \in SeqsOf(Roots \cup Others, 1, max) :
        /\ d[1] \in Roots
        /\ \A k \in 2..Len(d) :
              /\ d[k] \in Others
              /\ d[k].parent \in 1..(k - 1)
              /\ d[d[k].parent].kind = "element"}

StyleStart ==
    /\ node_style = [k \in 1..Len(dom) |-> <<>>]
    /\ todo = <<1>> /\ run = 1 /\ snap = <<>> /\ serr = "none"
    /\ LayoutIdle /\ LexIdle /\ CssIdle /\ SelIdle /\ BlockIdle /\ FontIdle

\* The inputs of the font-size specification.
FontDecls ==
    {<<"font-size", Px(1000)>>, <<"font-size", Pct(50)>>,
     <<"font-size", Bare("", "%")>>, <<"font-size", Bare("", "px")>>,
     <<"font-size", Em(2)>>, <<"background-color", Kw("red")>>}
FontInline ==
    {<<>>, <<<<"font-size", Pct(50)>>>>, <<<<"color", Kw("orange")>>>>,
     <<<<"color", Kw("orange")>>, <<"font-size", Bare("x", "%")>>>>}
FontRules == {<<sel, <<decl>>>> : sel \in {TagSelector(<<"p">>), ClassSelector(<<".", "w">>)},
                                  decl \in FontDecls}
FontElements(Parents) ==
    [kind : {"element"}, tag : {<<"p">>}, class : {<<>>, <<"w">>},
     style : FontInline, parent : Parents]
TextLeaves(Parents) ==
    [kind : {"text"}, tag : {<<>>}, class : {<<>>}, style : {<<>>},
     parent : Parents]

InitStyle ==
    /\ dom \in Trees(MaxStyleNodes, FontElements({0}),
                     FontElements(1..MaxStyleNodes) \cup TextLeaves(1..MaxStyleNodes))
    /\ sheet \in SeqsOf(FontRules, 0, MaxRules)
    /\ StyleStart

\* The inputs of the cascade specification.
ColorDecls == {<<"color", Kw("red")>>, <<"color", Kw("orange")>>}
CascadeRules ==
    {<<sel, <<decl>>>> :
        sel \in {TagSelector(<<"p">>), ClassSelector(<<".", "w">>),
                 DescendentSelector(TagSelector(<<"d">>), TagSelector(<<"p">>))},
        decl \in ColorDecls}
CascadeElements(Parents) ==
    [kind : {"element"}, tag : {<<"p">>, <<"d">>}, class : {<<>>, <<"w">>},
     style : {<<>>, <<<<"color", Kw("blue")>>>>}, parent : Parents]

InitCascade ==
    /\ dom \in Trees(MaxCascadeNodes, CascadeElements({0}),
                     CascadeElements(1..MaxCascadeNodes))
    /\ sheet \in SeqsOf(CascadeRules, 0, MaxCascadeRules)
    /\ StyleStart

RunEnded == todo = <<>> \/ serr # "none"

\* One call of style(node, rules): the node on top of the recursion.
StyleNode ==
    /\ todo # <<>>
    /\ serr = "none"
    /\ LET n == Head(todo)
           r == StyleOne(node_style, n)
       IN /\ node_style' = [node_style EXCEPT ![n] = r.m]
          /\ serr' = r.err
          /\ todo' = IF r.err = "none"
                     THEN ElementChildrenFrom(n, 1) \o Tail(todo)
                     ELSE todo
    /\ UNCHANGED <<dom, sheet, run, snap, notStyle>>

\* The caller runs style(root, rules) again on the same tree and rules.
StyleAgain ==
    /\ run = 1
    /\ RunEnded
    /\ run' = 2
    /\ snap' = node_style
    /\ todo' = <<1>>
    /\ serr' = "none"
    /\ UNCHANGED <<dom, sheet, node_style, notStyle>>

NextStyle == StyleNode \/ StyleAgain

SpecStyle == InitStyle /\ [][NextStyle]_vars
SpecCascade == InitCascade /\ [][NextStyle]_vars

ElementsOfDom == {n \in 1..Len(dom) : dom[n].kind = "element"}
Declares(body, property) == \E k \in 1..Len(body) : body[k][1] = property
ValueIn(body, property) ==
    body[CHOOSE k \in 1..Len(body) : body[k][1] = property][2]
RuleMatches(k, n) == Matches(sheet[k][1], PathOf(n), Len(PathOf(n)))
IsSimple(k, kind) == Len(sheet[k][1]) = 1 /\ sheet[k][1][1].kind = kind

\* C2: when a tag rule and a class rule both match a node and declare the
\* same property, in either order, the node's resolved value is the class
\* rule's (no inline style for the property, no other class rule for it).
C2_ClassBeatsTag ==
    (todo = <<>> /\ serr = "none") =>
        \A n \in ElementsOfDom : \A a, b \in 1..Len(sheet) :
            \A property \in {"color"} :
                ( /\ IsSimple(a, "tag") /\ IsSimple(b, "class")
                  /\ RuleMatches(a, n) /\ RuleMatches(b, n)
                  /\ Declares(sheet[a][2], property)
                  /\ Declares(sheet[b][2], property)
                  /\ ~Declares(dom[n].style, property)
                  /\ \A c \in 1..Len(sheet) : IsSimple(c, "class") => c = b )
                => node_style[n][property] = ValueIn(sheet[b][2], property)

\* C4: resolve never raises.
C4_NeverRaises == serr = "none"

\* C6: after a second run of style on the same tree with the same rules,
\* every node's style is what it was after the first run.
C6_Idempotent == (run = 2 /\ RunEnded) => node_style = snap

\* Both runs completed, on a tree where a percentage was resolved against an
\* inherited size and a rule set a property that is not inherited.
C6_Witness ==
    /\ run = 2 /\ todo = <<>> /\ serr = "none"
    /\ Len(dom) = 2 /\ dom[2].kind = "element"
    /\ node_style[1]["font-size"] = Px(800)
    /\ node_style[2]["font-size"] = Px(400)
    /\ "background-color" \in DOMAIN node_style[2]

\* An inline declaration has a computable value: a keyword, a px length, or
\* a numeric percentage of a numeric parent size; and the value it computes
\* to.
InlineComputable(n, property, value) ==
    \/ property # "font-size"
    \/ value.unit = "px"
    \/ /\ value.unit = "%" /\ value.txt = "num"
       /\ \/ dom[n].parent = 0
          \/ /\ "font-size" \in DOMAIN node_style[dom[n].parent]
             /\ node_style[dom[n].parent]["font-size"].txt = "num"
InlineValue(n, property, value) ==
    compute_style(node_style, n, property, value).val

\* C9: a property the node's style attribute declares with a computable
\* value resolves to the inline value, whatever rules match the node.
C9_InlineWins ==
    RunEnded =>
        \A n \in ElementsOfDom : \A k \in 1..Len(dom[n].style) :
            LET property == dom[n].style[k][1]
                value == dom[n].style[k][2]
            IN InlineComputable(n, property, value) =>
                  /\ property \in DOMAIN node_style[n]
                  /\ node_style[n][property] = InlineValue(n, property, value)

(***************************************************************************)
(* browser.py: the box tree.  DocumentLayout.layout builds one BlockLayout *)
(* for the root node; a BlockLayout in block mode builds one for each      *)
(* child of its node, one in inline mode lays the words of its node's      *)
(* subtree out in lines.  A box is known by the index of its node in       *)
(* btree; box 0 is the DocumentLayout, previous 0 is None.  The recursion  *)
(* of layout is the stack bstack: a box is entered (lines 264-280 or       *)
(* 284-287) and, in block mode, left after its children (line 282).        *)
(* A node of btree is [kind, tag, style, words, parent]: style is the      *)
(* node's style dict, words the measured widths of text.split().           *)
(***************************************************************************)
BLOCK_ELEMENTS ==
    {"html", "body", "article", "section", "nav", "aside", "h1", "h2", "h3",
     "h4", "h5", "h6", "hgroup", "header", "footer", "address", "p", "hr",
     "pre", "blockquote", "ol", "ul", "menu", "li", "dl", "dt", "dd",
     "figure", "figcaption", "main", "div", "table", "form", "fieldset",
     "legend", "details", "summary"}

\* Bounds of the box-tree specification.
MaxBoxNodes == 3
MaxPaints == 2
notBlock == <<layoutVars, lexVars, cssVars, selVars, styleVars, fontVars>>

\* node.children, in document order.
RECURSIVE NodeChildrenFrom(_, _)
NodeChildrenFrom(n, k) ==
    IF k > Len(btree) THEN <<>>
    ELSE IF btree[k].parent = n THEN <<k>> \o NodeChildrenFrom(n, k + 1)
    ELSE NodeChildrenFrom(n, k + 1)
NodeChildren(n) == NodeChildrenFrom(n, 1)

layout_mode(n) ==
    IF btree[n].kind = "text" THEN "inline"
    ELSE IF NodeChildren(n) # <<>>
    THEN IF \E k \in 1..Len(NodeChildren(n)) :
               /\ btree[NodeChildren(n)[k]].kind = "element"
               /\ btree[NodeChildren(n)[k]].tag \in BLOCK_ELEMENTS
         THEN "block"
         ELSE "inline"
    ELSE "block"

\* BlockLayout.__init__(node, parent, previous).
BlockLayout(node, parent, previous) ==
    [made |-> TRUE, node |-> node, parent |-> parent, previous |-> previous,
     children |-> <<>>, display_list |-> <<>>, x |-> 0, y |-> 0, width |-> 0,
     height |-> 0]
\* A node that has no box of its own.
NoBox ==
    [made |-> FALSE, node |-> 0, parent |-> 0, previous |-> 0,
     children |-> <<>>, display_list |-> <<>>, x |-> 0, y |-> 0, width |-> 0,
     height |-> 0]

\* The geometry of a box's parent, the DocumentLayout included.
ParentX(bs, b) == IF bs[b].parent = 0 THEN BoxX ELSE bs[bs[b].parent].x
ParentY(bs, b) == IF bs[b].parent = 0 THEN BoxY ELSE bs[bs[b].parent].y
ParentWidth(bs, b) ==
    IF bs[b].parent = 0 THEN DocumentWidth ELSE bs[bs[b].parent].width

\* BlockLayout.open_tag and close_tag on the state record of an inline box.
open_tag(b, tag) ==
    IF tag \in {"b", "strong"} THEN [b EXCEPT !.weight = "bold"]
    ELSE IF tag \in {"i", "em"} THEN [b EXCEPT !.style = "italic"]
    ELSE IF tag \in {"h1", "h2", "h3", "h4"}
    THEN [b EXCEPT !.size = Sizes(tag), !.weight = "bold"]
    ELSE IF tag \in {"div", "p", "nav"} THEN Flush(b)
    ELSE b

close_tag(b, tag) ==
    IF tag \in {"b", "strong"} THEN [b EXCEPT !.weight = "normal"]
    ELSE IF tag \in {"i", "em"} THEN [b EXCEPT !.style = "roman"]
    ELSE IF tag \in {"h1", "h2", "h3", "h4"}
    THEN [b EXCEPT !.size = 16, !.weight = "normal"]
    ELSE IF tag = "br" THEN Flush(b)
    ELSE IF tag \in {"div", "p", "nav"}
    THEN [Flush(b) EXCEPT !.cursor_y = Flush(b).cursor_y + 4 * VSTEP]
    ELSE b

\* BlockLayout.recurse(tree).
RECURSIVE recurse(_, _)
RECURSIVE RecurseChildren(_, _)
recurse(b, n) ==
    IF btree[n].kind = "text"
    THEN TextLoop(b, btree[n].words, Font(b.size, b.weight, b.style))
    ELSE close_tag(RecurseChildren(open_tag(b, btree[n].tag), NodeChildren(n)),
                   btree[n].tag)
RecurseChildren(b, kids) ==
    IF kids = <<>> THEN b
    ELSE RecurseChildren(recurse(b, Head(kids)), Tail(kids))

\* The inline branch of BlockLayout.layout for box id at (x, y), width w:
\* recurse, flush, and the DrawText commands with the height they leave.
\* Flush places a command at BoxX, BoxY; the box's own origin replaces them.
\* A command carries the box that emitted it.
InlineLayout(id, x, y, w) ==
    LET start == [width |-> w, cursor_x |-> 0, cursor_y |-> 0, line |-> <<>>,
                  display_list |-> <<>>, weight |-> "normal",
                  style |-> "roman", size |-> 16]
        end == Flush(recurse(start, id))
    IN [height |-> end.cursor_y,
        display_list |->
            [k \in 1..Len(end.display_list) |->
                [kind |-> "text", box |-> id,
                 left |-> end.display_list[k].left - BoxX + x,
                 top |-> end.display_list[k].top - BoxY + y,
                 text |-> end.display_list[k].word,
                 font |-> end.display_list[k].font]]]

\* Children made without their previous sibling.
RECURSIVE MakeChildrenNoPrevious(_, _, _, _)
MakeChildrenNoPrevious(bs, parent, kids, previous) ==
    IF kids = <<>> THEN bs
    ELSE MakeChildrenNoPrevious([bs EXCEPT ![Head(kids)] =
                                    BlockLayout(Head(kids), parent, 0)],
                                parent, Tail(kids), 0)

\* The loop of lines 273-276: one BlockLayout per child, each knowing the
\* one before it.
RECURSIVE MakeChildren(_, _, _, _)
MakeChildren(bs, parent, kids, previous) ==
    IF kids = <<>> THEN bs
    ELSE MakeChildren([bs EXCEPT ![Head(kids)] =
                                    BlockLayout(Head(kids), parent, previous)],
                      parent, Tail(kids), Head(kids))

\* sum([child.height for child in self.children]).
RECURSIVE SumHeights(_, _)
SumHeights(bs, kids) ==
    IF kids = <<>> THEN 0
    ELSE bs[Head(kids)].height + SumHeights(bs, Tail(kids))

\* The inputs of the box-tree specification: the values a node's
\* background-color can have (none when the style dict is empty), the tags
\* (div is a block element, b is not) and the words of a Text node.
BoxStyles ==
    {<<>>, "background-color" :> "transparent", "background-color" :> "red"}
BoxElements(Parents) ==
    [kind : {"element"}, tag : {"div", "b"}, style : BoxStyles,
     words : {<<>>}, parent : Parents]
BoxTexts(Parents) ==
    [kind : {"text"}, tag : {""}, style : {<<>>},
     words : {<<300>>, <<500, 500>>}, parent : Parents]

\* The trees of k nodes, in creation order: the root is an Element, every
\* other node is the child of an Element created before it.
RECURSIVE BoxTreesOfLen(_)
BoxTreesOfLen(k) ==
    IF k = 1 THEN {<<r>> : r \in BoxElements({0})}
    ELSE UNION {{Append(d, n) :
                    n \in {m \in BoxElements(1..(k - 1)) \cup BoxTexts(1..(k - 1)) :
                             d[m.parent].kind = "element"}} :
                d \in BoxTreesOfLen(k - 1)}
BoxTrees == UNION {BoxTreesOfLen(k) : k \in 1..MaxBoxNodes}

\* DocumentLayout(node) constructed on a styled tree, before layout.
InitBlock ==
    /\ btree \in BoxTrees
    /\ boxes = [k \in 1..Len(btree) |-> NoBox]
    /\ bstack = <<>> /\ bpc = "constructed" /\ doc_height = 0 /\ paints = <<>>
    /\ LayoutIdle /\ LexIdle /\ CssIdle /\ SelIdle /\ StyleIdle /\ FontIdle

\* DocumentLayout.layout up to the call of child.layout().
DocumentLayoutStart ==
    /\ bpc = "constructed"
    /\ boxes' = [boxes EXCEPT ![1] = BlockLayout(1, 0, 0)]
    /\ bstack' = <<[box |-> 1, pc |-> "enter"]>>
    /\ bpc' = "layout"
    /\ UNCHANGED <<btree, doc_height, paints, notBlock>>

\* BlockLayout.layout entered for the box on top of the stack: its origin
\* and width, then its children made and queued (block mode), or its text
\* laid out and its height set (inline mode).
LayoutEnter ==
    /\ bstack # <<>>
    /\ Head(bstack).pc = "enter"
    /\ LET b == Head(bstack).box
           x == ParentX(boxes, b)
           y == IF boxes[b].previous # 0
                THEN boxes[boxes[b].previous].y + boxes[boxes[b].previous].height
                ELSE ParentY(boxes, b)
           w == ParentWidth(boxes, b)
           placed == [boxes EXCEPT ![b].x = x, ![b].y = y, ![b].width = w]
           kids == NodeChildren(b)
           inl == InlineLayout(b, x, y, w)
       IN IF layout_mode(b) = "block"
          THEN /\ boxes' = [MakeChildren(placed, b, kids, 0)
                               EXCEPT ![b].children = kids]
               /\ bstack' = [k \in 1..Len(kids) |->
                                [box |-> kids[k], pc |-> "enter"]]
                            \o <<[box |-> b, pc |-> "exit"]>> \o Tail(bstack)
          ELSE /\ boxes' = [placed EXCEPT ![b].display_list = inl.display_list,
                                          ![b].height = inl.height]
               /\ bstack' = Tail(bstack)
    /\ UNCHANGED <<btree, bpc, doc_height, paints, notBlock>>

\* BlockLayout.layout, block mode, after the loop over its children.
LayoutExit ==
    /\ bstack # <<>>
    /\ Head(bstack).pc = "exit"
    /\ LET b == Head(bstack).box
       IN boxes' = [boxes EXCEPT ![b].height = SumHeights(boxes, boxes[b].children)]
    /\ bstack' = Tail(bstack)
    /\ UNCHANGED <<btree, bpc, doc_height, paints, notBlock>>

\* DocumentLayout.layout after child.layout() returned.
DocumentLayoutEnd ==
    /\ bpc = "layout"
    /\ bstack = <<>>
    /\ doc_height' = boxes[1].height + 2 * 4 * VSTEP
    /\ bpc' = "laid"
    /\ UNCHANGED <<btree, boxes, bstack, paints, notBlock>>

\* node.style.get("background-color", "transparent").
StyleGet(st, name, default) == IF name \in DOMAIN st THEN st[name] ELSE default

\* The DrawRect of a box, if its background is not transparent.
RectOf(b) ==
    LET bgcolor == StyleGet(btree[b].style, "background-color", "transparent")
    IN IF bgcolor # "transparent"
       THEN <<[kind |-> "rect", box |-> b, left |-> boxes[b].x,
               top |-> boxes[b].y, right |-> boxes[b].x + boxes[b].width,
               bottom |-> boxes[b].y + boxes[b].height, color |-> bgcolor]>>
       ELSE <<>>

\* A paint that appends the rectangle after everything else.
EmitRectLast(rect, children, own) == children \o own \o rect

\* The order in which BlockLayout.paint appends to the display list.
Emit(rect, children, own) == rect \o children \o own

\* BlockLayout.paint(display_list): what box b appends.
RECURSIVE PaintBox(_)
RECURSIVE PaintChildren(_)
PaintBox(b) ==
    Emit(RectOf(b), PaintChildren(boxes[b].children), boxes[b].display_list)
PaintChildren(kids) ==
    IF kids = <<>> THEN <<>>
    ELSE PaintBox(Head(kids)) \o PaintChildren(Tail(kids))

\* DocumentLayout.paint(display_list) on an empty list.
Paint ==
    /\ bpc = "laid"
    /\ Len(paints) < MaxPaints
    /\ paints' = Append(paints, PaintBox(1))
    /\ UNCHANGED <<btree, boxes, bstack, bpc, doc_height, notBlock>>

NextBlock ==
    \/ DocumentLayoutStart
    \/ LayoutEnter
    \/ LayoutExit
    \/ DocumentLayoutEnd
    \/ Paint

SpecBlock == InitBlock /\ [][NextBlock]_vars

\* The boxes layout has made, and whether box a is a proper ancestor of c.
MadeBoxes == {b \in 1..Len(boxes) : boxes[b].made}
RECURSIVE IsBoxAncestor(_, _)
IsBoxAncestor(a, c) ==
    /\ boxes[c].parent # 0
    /\ \/ boxes[c].parent = a
       \/ IsBoxAncestor(a, boxes[c].parent)
InSubtree(a, c) == c = a \/ IsBoxAncestor(a, c)
HasBackground(b) ==
    /\ "background-color" \in DOMAIN btree[b].style
    /\ btree[b].style["background-color"] # "transparent"

\* One painted list L is in paint order.
PaintOrdered(L) ==
    LET idx == 1..Len(L)
    IN /\ \A k \in idx : L[k].box \in MadeBoxes
       \* a rectangle, covering the box, iff the box has a background
       /\ \A b \in MadeBoxes :
             LET rects == {k \in idx : L[k].kind = "rect" /\ L[k].box = b}
             IN /\ Cardinality(rects) = IF HasBackground(b) THEN 1 ELSE 0
                /\ \A k \in rects :
                      /\ L[k].left = boxes[b].x /\ L[k].top = boxes[b].y
                      /\ L[k].right = boxes[b].x + boxes[b].width
                      /\ L[k].bottom = boxes[b].y + boxes[b].height
       \* the rectangle precedes everything else of the box and its descendants
       /\ \A k, j \in idx :
             (L[k].kind = "rect" /\ j # k /\ InSubtree(L[k].box, L[j].box))
                => k < j
       \* children in child order
       /\ \A b \in MadeBoxes : \A c1, c2 \in 1..Len(boxes[b].children) :
             c1 < c2 =>
                \A k, j \in idx :
                   ( /\ InSubtree(boxes[b].children[c1], L[k].box)
                     /\ InSubtree(boxes[b].children[c2], L[j].box) ) => k < j
       \* the box's own text commands last, in the order layout buffered them
       /\ \A k, j \in idx :
             (L[k].kind = "text" /\ IsBoxAncestor(L[k].box, L[j].box)) => j < k
       /\ \A b \in MadeBoxes :
             SelectSeq(L, LAMBDA c : c.kind = "text" /\ c.box = b)
                = boxes[b].display_list

\* C11: every paint of a laid-out box tree emits a box's rectangle iff its
\* node has a background-color other than "transparent", before every
\* command of the box's descendants, then the children's commands in child
\* order, then the box's own text commands; every paint of the same box tree
\* gives the same list.
C11_PaintOrder ==
    \A p \in 1..Len(paints) :
        /\ PaintOrdered(paints[p])
        /\ paints[p] = paints[1]

\* Two paints of a tree whose root and second child have a background and
\* whose first child holds text: rect, text, rect.
C11_Witness ==
    /\ Len(paints) = 2
    /\ Len(paints[2]) >= 3
    /\ paints[2][1].kind = "rect" /\ paints[2][1].box = 1
    /\ \E k, j \in 2..Len(paints[2]) :
          /\ k < j
          /\ paints[2][k].kind = "text" /\ boxes[paints[2][k].box].parent = 1
          /\ paints[2][j].kind = "rect" /\ boxes[paints[2][j].box].parent = 1
    /\ \E b \in MadeBoxes : ~HasBackground(b)

\* C12: after layout, every box is as wide as its parent; the first child
\* of a box starts at its parent's y and every other child at its previous
\* sibling's y plus that sibling's height, so siblings do not overlap; a
\* block-mode box is as high as its children together; a box holds child
\* boxes or text commands, never both.
C12_BlockGeometry ==
    bpc = "laid" =>
        /\ boxes[1].made /\ boxes[1].parent = 0
        /\ \A b \in MadeBoxes :
              LET kids == boxes[b].children
              IN /\ boxes[b].width = ParentWidth(boxes, b)
                 /\ boxes[b].parent = 0 => boxes[b].y = BoxY
                 /\ \A k \in 1..Len(kids) :
                       /\ boxes[kids[k]].made
                       /\ boxes[kids[k]].parent = b
                       /\ boxes[kids[k]].y =
                             IF k = 1 THEN boxes[b].y
                             ELSE boxes[kids[k - 1]].y + boxes[kids[k - 1]].height
                 /\ \A k, j \in 1..Len(kids) :
                       k < j => boxes[kids[k]].y + boxes[kids[k]].height
                                   <= boxes[kids[j]].y
                 /\ layout_mode(b) = "block" =>
                       /\ kids = NodeChildren(b)
                       /\ boxes[b].height = SumHeights(boxes, kids)
                 /\ kids = <<>> \/ boxes[b].display_list = <<>>

\* A laid-out block box with two children, the first holding text of two
\* lines, the second an empty block below it.
C12_Witness ==
    /\ bpc = "laid"
    /\ \E b \in MadeBoxes :
          /\ Len(boxes[b].children) = 2
          /\ Len(boxes[boxes[b].children[1]].display_list) = 2
          /\ boxes[boxes[b].children[1]].height > 0
          /\ boxes[boxes[b].children[2]].y > boxes[b].y
          /\ layout_mode(boxes[b].children[2]) = "block"
          /\ boxes[b].height = boxes[boxes[b].children[1]].height

(***************************************************************************)
(* browser.py: get_font and the cache FONTS.  A key is <<size, weight,     *)
(* style>>.  A call of get_font is a frame on the interpreter's stack;     *)
(* fdepth counts the frames of the lookup in progress.  The interpreter    *)
(* raises RecursionError when a call would exceed its recursion limit, and *)
(* nothing in get_font catches it.                                         *)
(***************************************************************************)
\* Bound of the font-cache specification: the interpreter's recursion limit.
RecursionLimit == 10
FontKeys == {16, 20, 24} \X {"normal", "bold"} \X {"roman", "italic"}
notFont == <<layoutVars, lexVars, cssVars, selVars, styleVars, blockVars>>

\* FONTS = {} at import.
InitFont ==
    /\ FONTS = <<>> /\ fkey = <<>> /\ fdepth = 0 /\ fpc = "idle" /\ fret = <<>>
    /\ LayoutIdle /\ LexIdle /\ CssIdle /\ SelIdle /\ StyleIdle /\ BlockIdle

\* A caller looks a font up: get_font(size, weight, style).
GetFontCall(k) ==
    /\ fpc # "running"
    /\ fkey' = k
    /\ fdepth' = 1
    /\ fpc' = "running"
    /\ fret' = <<>>
    /\ UNCHANGED <<FONTS, notFont>>

\* The innermost frame of get_font runs.  On a hit it returns FONTS[key] to
\* its caller, which, if it is get_font itself, stores the font under the
\* key and returns it in turn.  On a miss it calls get_font with the same
\* arguments, or the interpreter raises RecursionError, which unwinds every
\* frame.
GetFontFrame ==
    /\ fpc = "running"
    /\ IF fkey \in DOMAIN FONTS
       THEN /\ FONTS' = [FONTS EXCEPT ![fkey] = FONTS[fkey]]
            /\ fdepth' = fdepth - 1
            /\ fret' = FONTS[fkey]
            /\ fpc' = IF fdepth = 1 THEN "returned" ELSE "running"
       ELSE IF fdepth < RecursionLimit
       THEN /\ fdepth' = fdepth + 1
            /\ UNCHANGED <<FONTS, fret, fpc>>
       ELSE /\ fdepth' = 0
            /\ fpc' = "RecursionError"
            /\ UNCHANGED <<FONTS, fret>>
    /\ UNCHANGED <<fkey, notFont>>

NextFont ==
    \/ \E k \in FontKeys : GetFontCall(k)
    \/ GetFontFrame

SpecFont == InitFont /\ [][NextFont]_vars

\* C13: a lookup that has ended has returned a font, the one the cache
\* holds under the lookup's key.
C13_LookupReturnsCached ==
    fpc \in {"returned", "RecursionError"} =>
        /\ fpc = "returned"
        /\ fkey \in DOMAIN FONTS
        /\ fret = FONTS[fkey]

====
